---- MODULE Spec2Model ----
(***************************************************************************)
(* The Handshake Python SDK (src/sdk/python/handshake.py): a synchronous   *)
(* client whose public operations validate their arguments, issue HTTP     *)
(* requests through one session and map the response to a typed result or  *)
(* to an exception.  The server and the transport are the environment:     *)
(* every call draws the transport result, the status code and the body     *)
(* text from finite sets.                                                  *)
(*                                                                         *)
(* The auto-fix script (src/scripts/auto_fix.py): AutoFixer.auto_fix_loop  *)
(* fetches the latest workflow logs, has them analysed, asks the user,     *)
(* rewrites the files the analysis names, commits and pushes, and starts   *)
(* over, at most max_iterations times.  The gh and git commands, the       *)
(* analysis service, the user and the file system's faults are the         *)
(* environment.  The script does not use the SDK; it has a specification   *)
(* of its own, SpecAutoFix.                                                *)
(*                                                                         *)
(* The Moltbook agent (src/moltbook_agent.py): MoltbookAgent's endless     *)
(* run_autonomous_cycle answers mentions, comments on posts found by       *)
(* keyword, and sleeps.  The Moltbook server is the environment: it keeps  *)
(* the comments of each post and may fail any HTTP call.  Specification    *)
(* SpecMoltbook.                                                           *)
(***************************************************************************)
EXTENDS Integers, Sequences, FiniteSets, TLC

VARIABLES
    api_key,    \* Handshake.api_key
    base_url,   \* Handshake.base_url, a sequence of URL pieces
    timeout,    \* Handshake.timeout
    headers,    \* Handshake._session.headers
    last,       \* the most recent public call: operation, arguments, the
                \* requests it handed to the session, the reply, the outcome
    known,      \* per escrow id, the status carried by the latest result the
                \* caller got for it ("UNKNOWN" before any)
    ncalls,     \* number of public calls made so far
    pc,         \* auto_fix_loop: the statement it is at
    iteration,  \* auto_fix_loop: the loop variable, 0 before the loop
    logs,       \* auto_fix_loop: logs
    analysis,   \* auto_fix_loop: analysis
    response,   \* auto_fix_loop: response
    next_error, \* auto_fix_loop: position of "for error in analysis['errors']"
    fixed_files,\* auto_fix_loop: fixed_files
    files,      \* the files under repo_root: path -> File(text) or Absent
    returned,   \* what auto_fix_loop returned, PyNone while it runs
    steps,      \* the steps taken in the current iteration, in order
    phase,      \* run_autonomous_cycle: the statement it is at
    mentions,   \* auto_respond_to_mentions: mentions
    mention_i,  \* auto_respond_to_mentions: position of "for mention in mentions"
    keyword_i,  \* engage_with_relevant_posts: position of "for keyword in keywords"
    posts,      \* engage_with_relevant_posts: posts[:3]
    post_i,     \* engage_with_relevant_posts: position of "for post in posts[:3]"
    comments,   \* the server: per post id, the authors of its comments in order
    failures,   \* number of HTTP calls that have failed so far
    last_error, \* the exception run_autonomous_cycle's handler is handling
    slept,      \* seconds run_autonomous_cycle has just slept, 0 once the
                \* cycle is under way
    replied     \* the reply_to_post the latest step invoked: the post, and
                \* whether its comments then held one by agent_name

client == <<api_key, base_url, timeout, headers, last, known, ncalls>>

fixer == <<pc, iteration, logs, analysis, response, next_error, fixed_files,
           files, returned, steps>>

agent == <<phase, mentions, mention_i, keyword_i, posts, post_i, comments,
           failures, last_error, slept, replied>>

vars == <<client, fixer, agent>>

\* Number of public calls in one behaviour.
MaxCalls == 2

(***************************************************************************)
(* Python values.  Every value carries its type, so that truthiness,       *)
(* dict.get and attribute errors are computed as the interpreter does.     *)
(***************************************************************************)
PyNone == [t |-> "none"]
PyBool(b) == [t |-> "bool", b |-> b]
PyInt(n) == [t |-> "int", n |-> n]
PyStr(s) == [t |-> "str", s |-> s]
PyList(l) == [t |-> "list", l |-> l]
PyDict(d) == [t |-> "dict", d |-> d]

EmptyDict == PyDict([k \in {} |-> PyNone])

\* bool(v)
Truthy(v) ==
    CASE v.t = "none" -> FALSE
      [] v.t = "bool" -> v.b
      [] v.t = "int" -> v.n # 0
      [] v.t = "str" -> v.s # ""
      [] v.t = "list" -> v.l # <<>>
      [] v.t = "dict" -> DOMAIN v.d # {}
      [] OTHER -> TRUE

\* k in data, for a dict
HasKey(data, k) == k \in DOMAIN data.d

\* data.get(k, default), for a dict
Get(data, k, default) == IF k \in DOMAIN data.d THEN data.d[k] ELSE default

\* What a call ends with: a returned value or a raised exception.
Return(v) == [t |-> "return", val |-> v]
Raise(exc, arg) == [t |-> "raise", exc |-> exc, arg |-> arg]

\* class HandshakeError(Exception) and its three subclasses.
HandshakeErrors ==
    {"HandshakeError", "AuthenticationError", "NotFoundError", "ValidationError"}


(***************************************************************************)
(* Enumerations and result objects.                                        *)
(***************************************************************************)
\* class EscrowStatus(Enum): the member values
EscrowStatusValues ==
    {"LOCKED", "PENDING_VERIFICATION", "VERIFIED", "REJECTED", "PAID", "REFUNDED"}

\* class Verdict(Enum): the member values
VerdictValues == {"VALID", "INVALID"}

\* EscrowStatus(value): the member with that value, ValueError when none has
EscrowStatus(value) ==
    IF value.t = "str" /\ value.s \in EscrowStatusValues
    THEN Return([t |-> "EscrowStatus", name |-> value.s])
    ELSE Raise("ValueError", PyStr("not a valid EscrowStatus"))

\* Verdict(value): the member with that value, ValueError when none has
Verdict(value) ==
    IF value.t = "str" /\ value.s \in VerdictValues
    THEN Return([t |-> "Verdict", name |-> value.s])
    ELSE Raise("ValueError", PyStr("not a valid Verdict"))

\* Escrow.from_dict(data): data.get on anything but a dict is an
\* AttributeError; the status goes through EscrowStatus(...).
from_dict(data) ==
    IF data.t # "dict"
    THEN Raise("AttributeError", PyStr("object has no attribute 'get'"))
    ELSE LET st == EscrowStatus(Get(data, "status", PyStr("LOCKED")))
         IN  IF st.t = "raise"
             THEN st
             ELSE Return([t |-> "Escrow",
                          id |-> Get(data, "id", PyNone),
                          buyer_agent_id |-> Get(data, "buyer_agent_id", PyNone),
                          worker_agent_id |-> Get(data, "worker_agent_id", PyNone),
                          job_description |-> Get(data, "job_description", PyNone),
                          amount_locked |-> Get(data, "amount_locked", PyInt(0)),
                          currency |-> Get(data, "currency", PyStr("ETH")),
                          status |-> st.val,
                          toll_fee |-> Get(data, "toll_fee", PyInt(0)),
                          worker_payout |-> Get(data, "worker_payout", PyInt(0)),
                          worker_wallet |-> Get(data, "worker_wallet", PyNone),
                          buyer_wallet |-> Get(data, "buyer_wallet", PyNone),
                          work_submitted |-> Get(data, "work_submitted", PyNone),
                          judge_verdict |-> Get(data, "judge_verdict", PyNone),
                          payout_tx_hash |-> Get(data, "payout_tx_hash", PyNone),
                          toll_tx_hash |-> Get(data, "toll_tx_hash", PyNone),
                          created_at |-> Get(data, "created_at", PyNone)])

\* VerificationResult.is_valid
is_valid(result) == result.verdict = [t |-> "Verdict", name |-> "VALID"]

(***************************************************************************)
(* The server's replies.  A reply is a transport failure or a status code  *)
(* with a body text; response.json() is the JSON parser's table over the   *)
(* body texts the environment sends.                                       *)
(***************************************************************************)
Kv(k, v) == k :> v

FullEscrow ==
    PyDict(Kv("id", PyStr("e1")) @@ Kv("buyer_agent_id", PyStr("agent-1"))
        @@ Kv("worker_agent_id", PyStr("w1"))
        @@ Kv("job_description", PyStr("Write a haiku"))
        @@ Kv("amount_locked", PyInt(5)) @@ Kv("currency", PyStr("USDC"))
        @@ Kv("status", PyStr("LOCKED")) @@ Kv("toll_fee", PyInt(1))
        @@ Kv("worker_payout", PyInt(4)) @@ Kv("worker_wallet", PyStr("0xW"))
        @@ Kv("buyer_wallet", PyStr("0xB")) @@ Kv("work_submitted", PyNone)
        @@ Kv("judge_verdict", PyNone) @@ Kv("payout_tx_hash", PyNone)
        @@ Kv("toll_tx_hash", PyNone) @@ Kv("created_at", PyStr("2026-01-01")))

BriefEscrow(id, status) == PyDict(Kv("id", PyStr(id)) @@ Kv("status", PyStr(status)))

TxtHtml == "<html>502 Bad Gateway</html>"
TxtList == "[]"
TxtEmptyObject == "{}"
TxtFailed == "{\"success\": false, \"error\": \"insufficient funds\"}"
TxtFailedPayout == "{\"success\": false, \"error\": \"Escrow must be VERIFIED\", \"worker_paid\": 0}"
TxtFalseNoError == "{\"success\": false}"
TxtNullError == "{\"success\": null, \"error\": \"degraded\"}"
TxtTrueError == "{\"success\": true, \"error\": \"deprecated\"}"
TxtErrorOnly == "{\"error\": \"rate limited\"}"
TxtEscrow ==
    "{\"escrow\": {\"id\": \"e1\", \"buyer_agent_id\": \"agent-1\", \"worker_agent_id\": \"w1\", \"job_description\": \"Write a haiku\", \"amount_locked\": 5, \"currency\": \"USDC\", \"status\": \"LOCKED\", \"toll_fee\": 1, \"worker_payout\": 4, \"worker_wallet\": \"0xW\", \"buyer_wallet\": \"0xB\", \"work_submitted\": null, \"judge_verdict\": null, \"payout_tx_hash\": null, \"toll_tx_hash\": null, \"created_at\": \"2026-01-01\"}}"
TxtEscrowCancelled == "{\"escrow\": {\"id\": \"e1\", \"status\": \"CANCELLED\"}}"
TxtEscrowRejected == "{\"escrow\": {\"id\": \"e1\", \"status\": \"REJECTED\"}}"
TxtEscrowNull == "{\"escrow\": null}"
TxtEscrows ==
    "{\"escrows\": [{\"id\": \"e1\", \"status\": \"VERIFIED\"}, {\"id\": \"e2\", \"status\": \"REJECTED\"}]}"
TxtValid == "{\"verdict\": \"VALID\", \"status\": \"VERIFIED\", \"message\": \"ok\"}"
TxtInvalid == "{\"verdict\": \"INVALID\", \"status\": \"REJECTED\", \"message\": \"no\"}"
TxtMaybe == "{\"verdict\": \"MAYBE\", \"status\": \"VERIFIED\"}"
TxtValidOnly == "{\"verdict\": \"VALID\"}"
TxtVerifiedOnly == "{\"status\": \"VERIFIED\"}"
TxtPaid ==
    "{\"success\": true, \"worker_paid\": 4, \"toll_fee\": 1, \"payout_tx\": \"0xaa\", \"toll_tx\": \"0xbb\", \"message\": \"paid\"}"

BodyTexts ==
    {TxtHtml, TxtList, TxtEmptyObject, TxtFailed, TxtFailedPayout, TxtFalseNoError,
     TxtNullError,
     TxtTrueError, TxtErrorOnly, TxtEscrow, TxtEscrowCancelled, TxtEscrowRejected,
     TxtEscrowNull, TxtEscrows, TxtValid, TxtInvalid, TxtMaybe, TxtValidOnly,
     TxtVerifiedOnly, TxtPaid}

\* response.json(): the parsed value, or ValueError for a text that is no JSON
ResponseJson(text) ==
    CASE text = TxtList -> Return(PyList(<<>>))
      [] text = TxtEmptyObject -> Return(EmptyDict)
      [] text = TxtFailed ->
            Return(PyDict(Kv("success", PyBool(FALSE))
                       @@ Kv("error", PyStr("insufficient funds"))))
      [] text = TxtFailedPayout ->
            Return(PyDict(Kv("success", PyBool(FALSE))
                       @@ Kv("error", PyStr("Escrow must be VERIFIED"))
                       @@ Kv("worker_paid", PyInt(0))))
      [] text = TxtFalseNoError -> Return(PyDict(Kv("success", PyBool(FALSE))))
      [] text = TxtNullError ->
            Return(PyDict(Kv("success", PyNone) @@ Kv("error", PyStr("degraded"))))
      [] text = TxtTrueError ->
            Return(PyDict(Kv("success", PyBool(TRUE))
                       @@ Kv("error", PyStr("deprecated"))))
      [] text = TxtErrorOnly -> Return(PyDict(Kv("error", PyStr("rate limited"))))
      [] text = TxtEscrow -> Return(PyDict(Kv("escrow", FullEscrow)))
      [] text = TxtEscrowCancelled ->
            Return(PyDict(Kv("escrow", BriefEscrow("e1", "CANCELLED"))))
      [] text = TxtEscrowRejected ->
            Return(PyDict(Kv("escrow", BriefEscrow("e1", "REJECTED"))))
      [] text = TxtEscrowNull -> Return(PyDict(Kv("escrow", PyNone)))
      [] text = TxtEscrows ->
            Return(PyDict(Kv("escrows",
                PyList(<<BriefEscrow("e1", "VERIFIED"), BriefEscrow("e2", "REJECTED")>>))))
      [] text = TxtValid ->
            Return(PyDict(Kv("verdict", PyStr("VALID")) @@ Kv("status", PyStr("VERIFIED"))
                       @@ Kv("message", PyStr("ok"))))
      [] text = TxtInvalid ->
            Return(PyDict(Kv("verdict", PyStr("INVALID")) @@ Kv("status", PyStr("REJECTED"))
                       @@ Kv("message", PyStr("no"))))
      [] text = TxtMaybe ->
            Return(PyDict(Kv("verdict", PyStr("MAYBE")) @@ Kv("status", PyStr("VERIFIED"))))
      [] text = TxtValidOnly -> Return(PyDict(Kv("verdict", PyStr("VALID"))))
      [] text = TxtVerifiedOnly -> Return(PyDict(Kv("status", PyStr("VERIFIED"))))
      [] text = TxtPaid ->
            Return(PyDict(Kv("success", PyBool(TRUE)) @@ Kv("worker_paid", PyInt(4))
                       @@ Kv("toll_fee", PyInt(1)) @@ Kv("payout_tx", PyStr("0xaa"))
                       @@ Kv("toll_tx", PyStr("0xbb")) @@ Kv("message", PyStr("paid"))))
      [] OTHER -> Raise("ValueError", PyStr("Expecting value"))

\* Status codes the server answers with besides 200.
ErrorStatusCodes == {401, 403, 404, 500}

\* Bodies that come with them: an HTML page, JSON that is no object, an
\* object with and without success/error, and a full payload.
ErrorBodyTexts == {TxtHtml, TxtList, TxtEmptyObject, TxtFailed, TxtEscrow}

\* requests.RequestException causes
TransportFailures == {"connection refused", "read timed out"}

Response(status_code, text) == [ok |-> TRUE, status_code |-> status_code, text |-> text]
TransportError(cause) == [ok |-> FALSE, cause |-> cause]

\* Everything self._session.request can end with.
Replies ==
    {TransportError(c) : c \in TransportFailures}
        \cup {Response(200, text) : text \in BodyTexts}
        \cup {Response(sc, text) : sc \in ErrorStatusCodes, text \in ErrorBodyTexts}


(***************************************************************************)
(* Handshake: construction and the core request operation.                 *)
(***************************************************************************)
\* str.rstrip("/") on a URL held as a sequence of pieces
RECURSIVE rstrip(_)
rstrip(url) ==
    IF url # <<>> /\ url[Len(url)] = "/"
    THEN rstrip(SubSeq(url, 1, Len(url) - 1))
    ELSE url

\* Handshake.DEFAULT_URL
DEFAULT_URL == <<"https://thehandshake.io">>

\* Constructor arguments (api_key, base_url, timeout) the caller may pass.
ConstructorArgs ==
    {[api_key |-> "key-1", base_url |-> DEFAULT_URL, timeout |-> 30],
     [api_key |-> "key-2", base_url |-> <<"http://localhost:3000", "/">>, timeout |-> 5]}

\* The session headers __init__ installs.
SessionHeaders(key) ==
    Kv("Authorization", "Bearer " \o key)
        @@ Kv("Content-Type", "application/json")
        @@ Kv("User-Agent", "handshake-python/1.0.0")

\* The client object as the methods see it.
self ==
    [api_key |-> api_key, base_url |-> base_url, timeout |-> timeout,
     headers |-> headers]

\* A finished call of _request or of a public operation: the requests handed
\* to the session, in order, and the value returned or exception raised.
Done(requests, outcome) == [requests |-> requests, outcome |-> outcome]

\* The default timeout written into the call instead of the configured one.
SetDefaultTimeout_literal(kwargs, t) ==
    IF "timeout" \in DOMAIN kwargs THEN kwargs ELSE kwargs @@ Kv("timeout", PyInt(30))

\* kwargs.setdefault("timeout", self.timeout)
SetDefaultTimeout(kwargs, t) ==
    IF "timeout" \in DOMAIN kwargs THEN kwargs ELSE kwargs @@ Kv("timeout", PyInt(t))

\* The endpoint appended to the base URL itself, without the /api prefix.
SessionRequest_no_api(me, method, endpoint, kwargs) ==
    [method |-> method,
     url |-> me.base_url \o endpoint,
     kwargs |-> SetDefaultTimeout(kwargs, me.timeout),
     headers |-> me.headers]

\* The one self._session.request(method, url, **kwargs) of a call.
SessionRequest(me, method, endpoint, kwargs) ==
    [method |-> method,
     url |-> me.base_url \o <<"/api">> \o endpoint,
     kwargs |-> SetDefaultTimeout(kwargs, me.timeout),
     headers |-> me.headers]

\* A retrying client: a failed transport is tried a second time.
SessionCalls_retry(me, method, endpoint, kwargs, reply) ==
    LET r == SessionRequest(me, method, endpoint, kwargs)
    IN  IF reply.ok THEN <<r>> ELSE <<r, r>>

\* The session calls one _request makes: one, inside the try, in no loop.
SessionCalls(me, method, endpoint, kwargs, reply) ==
    <<SessionRequest(me, method, endpoint, kwargs)>>

NoRaise == [t |-> "none"]

\* The 401 check lost: the status falls through to the body.
StatusError_no401(status_code) ==
    IF status_code = 403
    THEN Raise("AuthenticationError", PyStr("Access forbidden"))
    ELSE IF status_code = 404
    THEN Raise("NotFoundError", PyStr("Escrow not found"))
    ELSE NoRaise

\* 404 reported as the base error.
StatusError_404_generic(status_code) ==
    IF status_code = 401
    THEN Raise("AuthenticationError", PyStr("Invalid API key"))
    ELSE IF status_code = 403
    THEN Raise("AuthenticationError", PyStr("Access forbidden"))
    ELSE IF status_code = 404
    THEN Raise("HandshakeError", PyStr("Escrow not found"))
    ELSE NoRaise

\* The three status checks of _request, in order.
StatusError(status_code) ==
    IF status_code = 401
    THEN Raise("AuthenticationError", PyStr("Invalid API key"))
    ELSE IF status_code = 403
    THEN Raise("AuthenticationError", PyStr("Access forbidden"))
    ELSE IF status_code = 404
    THEN Raise("NotFoundError", PyStr("Escrow not found"))
    ELSE NoRaise

\* The server's error replaced by a fixed message.
ServerError_fixed(data) == Raise("HandshakeError", PyStr("Request unsuccessful"))

\* raise HandshakeError(data["error"])
ServerError(data) == Raise("HandshakeError", data.d["error"])

\* not data.get("success", True) and "error" in data; data.get on a parsed
\* value that is no dict is an AttributeError.
ServerReported(data) ==
    ~Truthy(Get(data, "success", PyBool(TRUE))) /\ HasKey(data, "error")

\* The transport failure swallowed: an empty result instead of an error.
RequestFailed_swallowed(cause) == Return(EmptyDict)

\* raise HandshakeError(f"Request failed: {e}")
RequestFailed(cause) == Raise("HandshakeError", PyStr("Request failed: " \o cause))

\* The body text left out of the message.
InvalidJson_no_text(text) == Raise("HandshakeError", PyStr("Invalid JSON response"))

\* raise HandshakeError(f"Invalid JSON response: {response.text}")
InvalidJson(text) == Raise("HandshakeError", PyStr("Invalid JSON response: " \o text))

\* What _request ends with once the session answered with `reply`.
RequestOutcome(reply) ==
    LET data == ResponseJson(reply.text)
    IN  IF ~reply.ok
        THEN RequestFailed(reply.cause)
        ELSE IF StatusError(reply.status_code) # NoRaise
        THEN StatusError(reply.status_code)
        ELSE IF data.t = "raise"
        THEN InvalidJson(reply.text)
        ELSE IF data.val.t # "dict"
        THEN Raise("AttributeError", PyStr("object has no attribute 'get'"))
        ELSE IF ServerReported(data.val)
        THEN ServerError(data.val)
        ELSE Return(data.val)

\* Handshake._request
_request(me, method, endpoint, kwargs, reply) ==
    Done(SessionCalls(me, method, endpoint, kwargs, reply), RequestOutcome(reply))

NoKwargs == [k \in {} |-> PyNone]

(***************************************************************************)
(* The public operations, each as a function of its arguments and of what  *)
(* the session answers.                                                    *)
(***************************************************************************)
health(me, reply) == _request(me, "GET", <<"/health">>, NoKwargs, reply)

\* [Escrow.from_dict(e) for e in escrows]: iterating None, a number or a
\* bool is a TypeError; a str or dict iterates strings, on which from_dict
\* fails; the first failing element raises.
FromDictEach(escrows) ==
    IF escrows.t \in {"none", "int", "bool"}
    THEN Raise("TypeError", PyStr("object is not iterable"))
    ELSE IF escrows.t = "str"
    THEN IF escrows.s = "" THEN Return(PyList(<<>>)) ELSE from_dict(PyStr(escrows.s))
    ELSE IF escrows.t = "dict"
    THEN IF DOMAIN escrows.d = {} THEN Return(PyList(<<>>)) ELSE from_dict(PyStr("key"))
    ELSE LET each == [i \in 1..Len(escrows.l) |-> from_dict(escrows.l[i])]
             bad == {i \in 1..Len(escrows.l) : each[i].t = "raise"}
         IN  IF bad # {}
             THEN each[CHOOSE i \in bad : \A j \in bad : i <= j]
             ELSE Return(PyList([i \in 1..Len(escrows.l) |-> each[i].val]))

list_escrows(me, reply) ==
    LET call == _request(me, "GET", <<"/escrows">>, NoKwargs, reply)
        data == call.outcome.val
    IN  IF call.outcome.t = "raise"
        THEN call
        ELSE Done(call.requests, FromDictEach(Get(data, "escrows", PyList(<<>>))))

get_escrow(me, escrow_id, reply) ==
    LET call == _request(me, "GET", <<"/escrows/", escrow_id>>, NoKwargs, reply)
        data == call.outcome.val
    IN  IF call.outcome.t = "raise"
        THEN call
        ELSE Done(call.requests, from_dict(Get(data, "escrow", EmptyDict)))

\* Every optional argument sent, given or not.
CreatePayload_nulls(a) ==
    PyDict(Kv("buyer_agent_id", a.buyer_agent_id)
        @@ Kv("job_description", a.job_description)
        @@ Kv("amount_locked", a.amount) @@ Kv("currency", a.currency)
        @@ Kv("worker_agent_id", a.worker_agent_id)
        @@ Kv("worker_wallet", a.worker_wallet)
        @@ Kv("buyer_wallet", a.buyer_wallet))

\* The payload create_escrow builds: optional fields only when truthy.
CreatePayload(a) ==
    LET required ==
            Kv("buyer_agent_id", a.buyer_agent_id)
                @@ Kv("job_description", a.job_description)
                @@ Kv("amount_locked", a.amount) @@ Kv("currency", a.currency)
        Opt(k) == IF Truthy(a[k]) THEN Kv(k, a[k]) ELSE NoKwargs
    IN  PyDict(required @@ Opt("worker_agent_id") @@ Opt("worker_wallet")
                   @@ Opt("buyer_wallet"))

NoError == "none"

\* The amount check off by one: zero is let through.
CreateValidation_zero(a) ==
    IF ~Truthy(a.buyer_agent_id) THEN "buyer_agent_id is required"
    ELSE IF ~Truthy(a.job_description) THEN "job_description is required"
    ELSE IF a.amount.n < 0 THEN "amount must be positive"
    ELSE IF a.currency \notin {PyStr("ETH"), PyStr("USDC")}
    THEN "currency must be ETH or USDC"
    ELSE NoError

\* The currency left to the server.
CreateValidation_any_currency(a) ==
    IF ~Truthy(a.buyer_agent_id) THEN "buyer_agent_id is required"
    ELSE IF ~Truthy(a.job_description) THEN "job_description is required"
    ELSE IF a.amount.n <= 0 THEN "amount must be positive"
    ELSE NoError

\* The local checks of create_escrow, in order; NoError when all pass.
CreateValidation(a) ==
    IF ~Truthy(a.buyer_agent_id) THEN "buyer_agent_id is required"
    ELSE IF ~Truthy(a.job_description) THEN "job_description is required"
    ELSE IF a.amount.n <= 0 THEN "amount must be positive"
    ELSE IF a.currency \notin {PyStr("ETH"), PyStr("USDC")}
    THEN "currency must be ETH or USDC"
    ELSE NoError

create_escrow(me, a, reply) ==
    LET call == _request(me, "POST", <<"/escrows">>, Kv("json", CreatePayload(a)), reply)
        data == call.outcome.val
    IN  IF CreateValidation(a) # NoError
        THEN Done(<<>>, Raise("ValidationError", PyStr(CreateValidation(a))))
        ELSE IF call.outcome.t = "raise"
        THEN call
        ELSE Done(call.requests, from_dict(Get(data, "escrow", EmptyDict)))

submit_work(me, escrow_id, work, reply) ==
    _request(me, "POST", <<"/escrows/", escrow_id, "/submit">>,
             Kv("json", PyDict(Kv("work_description", work))), reply)

\* A verdict the server left out read as VALID.
verify_default_valid(me, escrow_id, reply) ==
    LET call == _request(me, "POST", <<"/escrows/", escrow_id, "/verify">>, NoKwargs, reply)
        data == call.outcome.val
        v == Verdict(Get(data, "verdict", PyStr("VALID")))
        st == EscrowStatus(Get(data, "status", PyStr("REJECTED")))
    IN  IF call.outcome.t = "raise" THEN call
        ELSE IF v.t = "raise" THEN Done(call.requests, v)
        ELSE IF st.t = "raise" THEN Done(call.requests, st)
        ELSE Done(call.requests,
                  Return([t |-> "VerificationResult", verdict |-> v.val,
                          status |-> st.val,
                          message |-> Get(data, "message", PyStr(""))]))

verify(me, escrow_id, reply) ==
    LET call == _request(me, "POST", <<"/escrows/", escrow_id, "/verify">>, NoKwargs, reply)
        data == call.outcome.val
        v == Verdict(Get(data, "verdict", PyStr("INVALID")))
        st == EscrowStatus(Get(data, "status", PyStr("REJECTED")))
    IN  IF call.outcome.t = "raise" THEN call
        ELSE IF v.t = "raise" THEN Done(call.requests, v)
        ELSE IF st.t = "raise" THEN Done(call.requests, st)
        ELSE Done(call.requests,
                  Return([t |-> "VerificationResult", verdict |-> v.val,
                          status |-> st.val,
                          message |-> Get(data, "message", PyStr(""))]))

payout(me, escrow_id, reply) ==
    LET call == _request(me, "POST", <<"/escrows/", escrow_id, "/payout">>, NoKwargs, reply)
        data == call.outcome.val
    IN  IF call.outcome.t = "raise"
        THEN call
        ELSE Done(call.requests,
                  Return([t |-> "PayoutResult",
                          success |-> Get(data, "success", PyBool(FALSE)),
                          worker_paid |-> Get(data, "worker_paid", PyInt(0)),
                          toll_fee |-> Get(data, "toll_fee", PyInt(0)),
                          payout_tx |-> Get(data, "payout_tx", PyNone),
                          toll_tx |-> Get(data, "toll_tx", PyNone),
                          message |-> Get(data, "message", PyStr(""))]))

refund(me, escrow_id, reply) ==
    _request(me, "POST", <<"/escrows/", escrow_id, "/refund">>, NoKwargs, reply)


(***************************************************************************)
(* The Moltbook agent: the server's data and the agent's helper methods.   *)
(***************************************************************************)
\* Number of HTTP calls the server fails in one behaviour.
MaxFailures == 2

\* MoltbookAgent.agent_name
agent_name == "TheHandshake"

\* run_autonomous_cycle(interval_minutes=30)
interval_minutes == 30

\* engage_with_relevant_posts: keywords
keywords ==
    <<"escrow", "payment", "trust", "transaction", "smart contract", "crypto",
      "ETH", "USDC", "AI agent">>

PostIds == {"p1", "p2"}

\* The posts on the server.
Post(id) ==
    IF id = "p1"
    THEN [id |-> id, title |-> "Paying an Agent", content |-> " needs trust"]
    ELSE [id |-> id, title |-> "Hello", content |-> " world"]

\* A mention of the agent; its id is the id of the post it was made in.
Mention(id, content) == [id |-> id, author |-> "alice", content |-> content]

\* str.lower() over the texts in use
lower(text) ==
    CASE text = "Paying an Agent" -> "paying an agent"
      [] text = "Hello" -> "hello"
      [] text = "How does it work?" -> "how does it work?"
      [] OTHER -> text

\* word in text, for the lowered texts in use and the words the agent looks for
Contains(text, word) ==
    CASE text = "paying an agent needs trust" -> word \in {"agent", "trust"}
      [] text = "how does it work?" -> word \in {"how", "work"}
      [] OTHER -> FALSE

\* _generate_response: the reply chosen by the words of the mention; the
\* last branch always returns a text.
_generate_response(mention) ==
    LET content == lower(mention.content)
        AnyOf(words) == \E word \in words : Contains(content, word)
    IN  IF AnyOf({"how", "work", "what", "explain"}) THEN PyStr("Great question!")
        ELSE IF AnyOf({"cost", "fee", "price", "cheap"}) THEN PyStr("The Handshake charges")
        ELSE IF AnyOf({"safe", "secure", "trust", "scam"}) THEN PyStr("Security is our top priority!")
        ELSE IF AnyOf({"integrate", "api", "use", "implement"}) THEN PyStr("Integration is super simple!")
        ELSE PyStr("Thanks for the mention!")

\* _generate_helpful_comment: a comment for some keywords and texts, else
\* None.  Each word tested against the keyword is a substring of exactly
\* the keyword equal to it.
_generate_helpful_comment(post, keyword) ==
    LET text == lower(post.title) \o lower(post.content)
    IN  IF keyword = "escrow"
           /\ \E word \in {"payment", "trust", "transaction"} : Contains(text, word)
        THEN PyStr("This is exactly what The Handshake solves!")
        ELSE IF keyword = "payment" /\ Contains(text, "agent")
        THEN PyStr("Have you considered using an escrow service for this?")
        ELSE IF keyword \in {"smart contract", "crypto", "ETH", "USDC"}
        THEN PyStr("If you need escrow for agent transactions")
        ELSE PyNone

\* The exceptions a failed HTTP call raises: requests' ConnectionError,
\* the HTTPError of raise_for_status, the JSONDecodeError of response.json().
HttpFailures == {"ConnectionError", "HTTPError", "JSONDecodeError"}

\* The subclasses of Exception among them: all three.
ExceptionSubclasses == {"ConnectionError", "HTTPError", "JSONDecodeError"}

\* What an HTTP call ends with: "ok", or one of the failures.
HttpOutcomes == {"ok"} \cup HttpFailures

\* The mentions the server may list.
MentionLists ==
    {<<>>,
     <<Mention("p1", "How does it work?")>>,
     <<Mention("p1", "hi"), Mention("p2", "How does it work?")>>}

\* The posts a search may return.
SearchResults ==
    {<<>>, <<Post("p2")>>, <<Post("p1"), Post("p2")>>,
     <<Post("p1"), Post("p1"), Post("p2"), Post("p2")>>}

\* posts[:3]
FirstThree(list) == SubSeq(list, 1, IF Len(list) < 3 THEN Len(list) ELSE 3)

\* _has_replied: whether a listed comment is by agent_name; False when the
\* lookup raises.
_has_replied(authors, lookup) ==
    IF lookup # "ok"
    THEN FALSE
    ELSE \E i \in 1..Len(authors) : authors[i] = agent_name

\* _has_commented_on
_has_commented_on(authors, lookup) == _has_replied(authors, lookup)

\* A handler that catches only what requests itself raises.
OuterHandler_requests_only(exc) ==
    IF exc \in {"ConnectionError", "HTTPError"} THEN "failed" ELSE "exited"

\* run_autonomous_cycle's "except Exception": where the loop is after exc
\* was raised inside the try.
OuterHandler(exc) == IF exc \in ExceptionSubclasses THEN "failed" ELSE "exited"

NoException == [exc |-> "none", during |-> "none", by |-> "none"]

NotReplied == [post |-> "none", already |-> FALSE]

\* MoltbookAgent.__init__, about to run run_autonomous_cycle.
AgentInit(server) ==
    /\ phase = "cycle"
    /\ mentions = <<>>
    /\ mention_i = 1
    /\ keyword_i = 1
    /\ posts = <<>>
    /\ post_i = 1
    /\ comments = server
    /\ failures = 0
    /\ last_error = NoException
    /\ slept = 0
    /\ replied = NotReplied

(***************************************************************************)
(* The auto-fix script: its environment and its helper methods.            *)
(***************************************************************************)
\* AutoFixer.max_iterations
max_iterations == 3

\* A path under repo_root holds a file with some text, or nothing.
Absent == [t |-> "nofile"]
File(text) == [t |-> "file", text |-> text]

\* full_path.with_suffix(full_path.suffix + '.backup')
BackupPath(file_path) == file_path \o ".backup"

\* repo_root / '.git' / 'index.lock'
LockFile == ".git/index.lock"

\* Files the analysis may name: two that exist and one that does not.
SourceFiles == {"a.py", "b.py"}
MissingFile == "gone.py"

Paths ==
    LET named == SourceFiles \cup {MissingFile}
    IN  named \cup {BackupPath(f) : f \in named} \cup {LockFile}

\* The repository when the script starts: the source files hold their
\* original text; a backup of an earlier run and a git lock may be left.
InitialFiles ==
    {[f \in Paths |->
        CASE f \in SourceFiles -> File("original")
          [] f = BackupPath("a.py") -> stale
          [] f = LockFile -> lock
          [] OTHER -> Absent] :
        stale \in {Absent, File("older")}, lock \in {Absent, File("")}}

\* "gh run list ...": the exit code and how many runs the JSON lists.
ListResults ==
    {[code |-> 1, runs |-> 0], [code |-> 0, runs |-> 0], [code |-> 0, runs |-> 1]}

\* "gh run view <id> --log": the exit code and stdout.
ViewResults ==
    {[code |-> 1, stdout |-> ""], [code |-> 0, stdout |-> ""],
     [code |-> 0, stdout |-> "TypeError: x is not a function"]}

\* get_latest_logs: None unless both commands succeed and a run exists.
get_latest_logs(list, view) ==
    IF list.code # 0 THEN PyNone
    ELSE IF list.runs = 0 THEN PyNone
    ELSE IF view.code # 0 THEN PyNone
    ELSE PyStr(view.stdout)

\* One entry of the analysis' errors, in the format the prompt asks for.
ErrorEntry(file) ==
    PyDict(Kv("type", PyStr("TypeError")) @@ Kv("message", PyStr("x is not a function"))
        @@ Kv("file", PyStr(file)) @@ Kv("fix_needed", PyStr("define x")))

Analysis(has_errors, errors) ==
    PyDict(Kv("has_errors", PyBool(has_errors)) @@ Kv("errors", PyList(errors))
        @@ Kv("summary", PyStr("summary")))

\* What analyze_logs_with_claude returns when the reply holds no JSON.
DefaultAnalysis ==
    PyDict(Kv("has_errors", PyBool(FALSE)) @@ Kv("errors", PyList(<<>>))
        @@ Kv("summary", PyStr("Could not parse analysis")))

\* The error lists an analysis may carry.
ErrorLists ==
    {<<>>, <<ErrorEntry("")>>, <<ErrorEntry(MissingFile)>>, <<ErrorEntry("a.py")>>,
     <<ErrorEntry("a.py"), ErrorEntry("b.py")>>,
     <<ErrorEntry(MissingFile), ErrorEntry("b.py")>>}

\* The analysis service's replies: text without JSON, or the JSON object
\* of the prompt's format.
ClaudeReplies ==
    {[json |-> FALSE]}
        \cup {[json |-> TRUE, value |-> Analysis(FALSE, <<>>)]}
        \cup {[json |-> TRUE, value |-> Analysis(TRUE, errors)] : errors \in ErrorLists}

\* analyze_logs_with_claude: the JSON object found in the reply, or the default
analyze_logs_with_claude(reply) ==
    IF reply.json THEN reply.value ELSE DefaultAnalysis

\* What the user may type at the prompt.
InputLines == {"y", " Y ", "yes", "n", ""}

\* input().strip().lower()
StripLower(line) == IF line = " Y " THEN "y" ELSE line

\* generate_fix_with_claude: the text the service returns for a file.
FixTexts == {"fixed"}

\* How the file system may fail inside apply_fix: not at all, at the
\* rename to the backup, at opening the file for writing, or while writing.
Faults == {"none", "rename", "open", "write"}

\* apply_fix: move the file to its backup, write the new text, return
\* True; on an exception move the backup, if there is one, back and
\* return False.
apply_fix(fs, file_path, new_content, fault) ==
    LET full_path == file_path
        backup_path == BackupPath(file_path)
        renamed ==
            IF fs[full_path] # Absent
            THEN [fs EXCEPT ![backup_path] = fs[full_path], ![full_path] = Absent]
            ELSE fs
        Restored(at) ==
            IF at[backup_path] # Absent
            THEN [at EXCEPT ![full_path] = at[backup_path], ![backup_path] = Absent]
            ELSE at
    IN  CASE fault = "rename" /\ fs[full_path] # Absent ->
                [files |-> Restored(fs), ret |-> FALSE]
          [] fault = "open" ->
                [files |-> Restored(renamed), ret |-> FALSE]
          [] fault = "write" ->
                [files |-> Restored([renamed EXCEPT ![full_path] = File("")]),
                 ret |-> FALSE]
          [] OTHER ->
                [files |-> [renamed EXCEPT ![full_path] = File(new_content)],
                 ret |-> TRUE]

\* "git commit": the exit code and stderr.
CommitResults ==
    {[code |-> 0, stderr |-> ""],
     [code |-> 1, stderr |-> "nothing to commit, working tree clean"],
     [code |-> 1, stderr |-> "fatal: unable to auto-detect email address"]}

\* "nothing to commit" in stderr
NothingToCommitIn(stderr) == stderr = "nothing to commit, working tree clean"

ExitCodes == {0, 1}

\* commit_and_push: the lock removed, then git add, commit and push, each
\* run only when the one before did not fail.
commit_and_push(fs, add, commit, push) ==
    [files |-> [fs EXCEPT ![LockFile] = Absent],
     ret |-> IF add # 0 THEN FALSE
             ELSE IF commit.code # 0 /\ ~NothingToCommitIn(commit.stderr) THEN FALSE
             ELSE IF push # 0 THEN FALSE
             ELSE TRUE]

\* The script before auto_fix_loop is called.
FixerInit(fs) ==
    /\ pc = "for"
    /\ iteration = 0
    /\ logs = PyNone
    /\ analysis = PyNone
    /\ response = ""
    /\ next_error = 1
    /\ fixed_files = <<>>
    /\ files = fs
    /\ returned = PyNone
    /\ steps = <<>>

(***************************************************************************)
(* The caller: arguments it passes, and one action per public operation.   *)
(***************************************************************************)
EscrowIds == {"e1", "e2"}

Works == {PyStr("def hello(): return 'world'")}

\* (worker_agent_id, worker_wallet, buyer_wallet) as the caller may pass them
OptionalArgs ==
    {<<PyNone, PyNone, PyNone>>,
     <<PyStr("w1"), PyNone, PyNone>>,
     <<PyNone, PyStr(""), PyStr("0xB")>>,
     <<PyStr("w1"), PyStr("0xW"), PyStr("0xB")>>}

CreateArgs ==
    {[buyer_agent_id |-> b, job_description |-> j, amount |-> PyInt(n),
      currency |-> PyStr(c), worker_agent_id |-> o[1], worker_wallet |-> o[2],
      buyer_wallet |-> o[3]] :
        b \in {PyStr(""), PyStr("agent-1")},
        j \in {PyStr(""), PyStr("Write a haiku")},
        n \in {-1, 0, 5},
        c \in {"BTC", "ETH", "USDC"},
        o \in OptionalArgs}

NoCall == [op |-> "none"]
NoReply == [ok |-> FALSE, cause |-> "not asked"]

\* The status a result carries for the escrow asked about, if any.
StatusOf(outcome) ==
    IF outcome.t = "return" /\ outcome.val.t \in {"Escrow", "VerificationResult"}
    THEN outcome.val.status.name
    ELSE "UNKNOWN"

\* One public call from start to end: the caller gets `call.outcome`.
Finish(op, args, reply, call) ==
    /\ ncalls < MaxCalls
    /\ ncalls' = ncalls + 1
    /\ last' = [op |-> op, args |-> args,
                reply |-> IF call.requests = <<>> THEN NoReply ELSE reply,
                requests |-> call.requests, outcome |-> call.outcome]
    /\ known' = IF op \in {"verify", "get_escrow"} /\ StatusOf(call.outcome) # "UNKNOWN"
                THEN [known EXCEPT ![args.escrow_id] = StatusOf(call.outcome)]
                ELSE known
    /\ UNCHANGED <<api_key, base_url, timeout, headers>>
    /\ UNCHANGED <<fixer, agent>>

Health ==
    \E reply \in Replies : Finish("health", [none |-> TRUE], reply, health(self, reply))

ListEscrows ==
    \E reply \in Replies :
        Finish("list_escrows", [none |-> TRUE], reply, list_escrows(self, reply))

GetEscrow ==
    \E id \in EscrowIds, reply \in Replies :
        Finish("get_escrow", [escrow_id |-> id], reply, get_escrow(self, id, reply))

\* The session is asked, and so answers, only when the local checks pass.
CreateEscrow ==
    \E a \in CreateArgs :
        \E reply \in IF CreateValidation(a) = NoError THEN Replies ELSE {NoReply} :
            Finish("create_escrow", a, reply, create_escrow(self, a, reply))

SubmitWork ==
    \E id \in EscrowIds, work \in Works, reply \in Replies :
        Finish("submit_work", [escrow_id |-> id, work |-> work], reply,
               submit_work(self, id, work, reply))

Verify ==
    \E id \in EscrowIds, reply \in Replies :
        Finish("verify", [escrow_id |-> id], reply, verify(self, id, reply))

\* A client that checks the last status it saw before asking the server.
Payout_checked ==
    \E id \in EscrowIds, reply \in Replies :
        IF known[id] \notin {"UNKNOWN", "VERIFIED"}
        THEN Finish("payout", [escrow_id |-> id], NoReply,
                    Done(<<>>, Raise("ValidationError", PyStr("escrow is not VERIFIED"))))
        ELSE Finish("payout", [escrow_id |-> id], reply, payout(self, id, reply))

Payout ==
    \E id \in EscrowIds, reply \in Replies :
        Finish("payout", [escrow_id |-> id], reply, payout(self, id, reply))

Refund ==
    \E id \in EscrowIds, reply \in Replies :
        Finish("refund", [escrow_id |-> id], reply, refund(self, id, reply))

\* Handshake.__init__
ClientInit(c) ==
    /\ api_key = c.api_key
    /\ base_url = rstrip(c.base_url)
    /\ timeout = c.timeout
    /\ headers = SessionHeaders(c.api_key)
    /\ last = NoCall
    /\ known = [id \in EscrowIds |-> "UNKNOWN"]
    /\ ncalls = 0

\* A client constructed; the auto-fix script is not run.
Init ==
    /\ \E c \in ConstructorArgs : ClientInit(c)
    /\ FixerInit([f \in Paths |-> Absent])
    /\ AgentInit([p \in PostIds |-> <<>>])

Next ==
    \/ Health
    \/ ListEscrows
    \/ GetEscrow
    \/ CreateEscrow
    \/ SubmitWork
    \/ Verify
    \/ Payout
    \/ Refund

Spec == Init /\ [][Next]_vars

(***************************************************************************)
(* auto_fix_loop, one action per statement group of the loop body.         *)
(***************************************************************************)
\* One step of the current iteration; ok says the loop went on after it
\* (for "apply": that a fix was applied).
Step(name, ok) == [name |-> name, ok |-> ok]

\* return value
Exit(value) == pc' = "done" /\ returned' = PyBool(value)

Goto(label) == pc' = label /\ returned' = returned

\* A loop that runs once more than max_iterations.
ForLoop_inclusive ==
    /\ pc = "for"
    /\ IF iteration <= max_iterations
       THEN /\ iteration' = iteration + 1
            /\ steps' = <<>>
            /\ Goto("fetch")
       ELSE /\ Exit(FALSE)
            /\ UNCHANGED <<iteration, steps>>
    /\ UNCHANGED <<logs, analysis, response, next_error, fixed_files, files>>
    /\ UNCHANGED <<client, agent>>

\* for iteration in range(1, self.max_iterations + 1), and the return
\* False that follows the loop
ForLoop ==
    /\ pc = "for"
    /\ IF iteration < max_iterations
       THEN /\ iteration' = iteration + 1
            /\ steps' = <<>>
            /\ Goto("fetch")
       ELSE /\ Exit(FALSE)
            /\ UNCHANGED <<iteration, steps>>
    /\ UNCHANGED <<logs, analysis, response, next_error, fixed_files, files>>
    /\ UNCHANGED <<client, agent>>

\* logs = self.get_latest_logs(); if not logs: break
FetchLogs ==
    /\ pc = "fetch"
    /\ \E list \in ListResults, view \in ViewResults :
        /\ logs' = get_latest_logs(list, view)
        /\ steps' = Append(steps, Step("fetch", Truthy(logs')))
        /\ IF ~Truthy(logs') THEN Exit(FALSE) ELSE Goto("analyze")
    /\ UNCHANGED <<iteration, analysis, response, next_error, fixed_files, files>>
    /\ UNCHANGED <<client, agent>>

\* analysis = self.analyze_logs_with_claude(logs);
\* if not analysis.get('has_errors', False): return True
Analyze ==
    /\ pc = "analyze"
    /\ \E reply \in ClaudeReplies :
        /\ analysis' = analyze_logs_with_claude(reply)
        /\ steps' = Append(steps,
               Step("analyze", Truthy(Get(analysis', "has_errors", PyBool(FALSE)))))
        /\ IF ~Truthy(Get(analysis', "has_errors", PyBool(FALSE)))
           THEN Exit(TRUE)
           ELSE Goto("confirm")
    /\ UNCHANGED <<iteration, logs, response, next_error, fixed_files, files>>
    /\ UNCHANGED <<client, agent>>

\* response = input().strip().lower(); if response != 'y': return False;
\* fixed_files = []
Confirm ==
    /\ pc = "confirm"
    /\ \E line \in InputLines :
        /\ response' = StripLower(line)
        /\ steps' = Append(steps, Step("confirm", response' = "y"))
        /\ IF response' # "y"
           THEN /\ Exit(FALSE)
                /\ UNCHANGED <<next_error, fixed_files>>
           ELSE /\ fixed_files' = <<>>
                /\ next_error' = 1
                /\ Goto("apply")
    /\ UNCHANGED <<iteration, logs, analysis, files>>
    /\ UNCHANGED <<client, agent>>

\* One turn of "for error in analysis['errors']": an entry without a file
\* or naming a missing file is skipped; otherwise the fix is generated and
\* applied, and the file recorded when apply_fix returns True.
ApplyFix ==
    /\ pc = "apply"
    /\ next_error <= Len(analysis.d["errors"].l)
    /\ LET error == analysis.d["errors"].l[next_error]
           file_path == Get(error, "file", PyNone)
       IN  IF ~Truthy(file_path)
           THEN /\ steps' = Append(steps, Step("apply", FALSE))
                /\ UNCHANGED <<fixed_files, files>>
           ELSE IF files[file_path.s] = Absent
           THEN /\ steps' = Append(steps, Step("apply", FALSE))
                /\ UNCHANGED <<fixed_files, files>>
           ELSE \E fixed_content \in FixTexts, fault \in Faults :
                  LET applied == apply_fix(files, file_path.s, fixed_content, fault)
                  IN  /\ files' = applied.files
                      /\ fixed_files' = IF applied.ret
                                        THEN Append(fixed_files, file_path.s)
                                        ELSE fixed_files
                      /\ steps' = Append(steps, Step("apply", applied.ret))
    /\ next_error' = next_error + 1
    /\ Goto("apply")
    /\ UNCHANGED <<iteration, logs, analysis, response>>
    /\ UNCHANGED <<client, agent>>

\* A commit attempted even when no fix was applied.
AfterFixes_always_commit ==
    /\ pc = "apply"
    /\ next_error > Len(analysis.d["errors"].l)
    /\ Goto("commit")
    /\ UNCHANGED <<iteration, logs, analysis, response, next_error, fixed_files,
                   files, steps>>
    /\ UNCHANGED <<client, agent>>

\* if not fixed_files: return False
AfterFixes ==
    /\ pc = "apply"
    /\ next_error > Len(analysis.d["errors"].l)
    /\ IF fixed_files = <<>> THEN Exit(FALSE) ELSE Goto("commit")
    /\ UNCHANGED <<iteration, logs, analysis, response, next_error, fixed_files,
                   files, steps>>
    /\ UNCHANGED <<client, agent>>

\* if not self.commit_and_push(commit_msg): return False
CommitAndPush ==
    /\ pc = "commit"
    /\ \E add \in ExitCodes, commit \in CommitResults, push \in ExitCodes :
        LET pushed == commit_and_push(files, add, commit, push)
        IN  /\ files' = pushed.files
            /\ steps' = Append(steps, Step("commit", pushed.ret))
            /\ IF ~pushed.ret THEN Exit(FALSE) ELSE Goto("wait")
    /\ UNCHANGED <<iteration, logs, analysis, response, next_error, fixed_files>>
    /\ UNCHANGED <<client, agent>>

\* time.sleep(30), then the next turn of the loop
Wait ==
    /\ pc = "wait"
    /\ steps' = Append(steps, Step("wait", TRUE))
    /\ Goto("for")
    /\ UNCHANGED <<iteration, logs, analysis, response, next_error, fixed_files, files>>
    /\ UNCHANGED <<client, agent>>

\* AutoFixer() about to run auto_fix_loop; the SDK client is not used.
InitAutoFix ==
    /\ ClientInit(CHOOSE c \in ConstructorArgs : c.base_url = DEFAULT_URL)
    /\ \E fs \in InitialFiles : FixerInit(fs)
    /\ AgentInit([p \in PostIds |-> <<>>])

NextAutoFix ==
    \/ ForLoop
    \/ FetchLogs
    \/ Analyze
    \/ Confirm
    \/ ApplyFix
    \/ AfterFixes
    \/ CommitAndPush
    \/ Wait

\* The script is one sequential process that keeps running: as long as a
\* statement is left to execute, one is executed.
SpecAutoFix == InitAutoFix /\ [][NextAutoFix]_vars /\ WF_vars(NextAutoFix)

(***************************************************************************)
(* run_autonomous_cycle, one action per HTTP exchange of the cycle.        *)
(***************************************************************************)
\* How many of the server's failures an outcome uses up.
Fails(outcome) == IF outcome = "ok" THEN 0 ELSE 1

\* The exception run_autonomous_cycle's handler holds as e.
Caught(exc) == [exc |-> exc, during |-> "mentions", by |-> "run_autonomous_cycle"]

\* The comments of the post hold one by agent_name.
HasOwnComment(post_id) ==
    \E i \in 1..Len(comments[post_id]) : comments[post_id][i] = agent_name

\* self.reply_to_post(post_id, ...) invoked
Invoked(post_id) == [post |-> post_id, already |-> HasOwnComment(post_id)]

\* The comments the server may hold when the agent starts.
InitialComments ==
    {[p \in PostIds |-> <<>>],
     [p \in PostIds |-> IF p = "p1" THEN <<"alice">> ELSE <<>>]}

\* auto_respond_to_mentions: mentions = self.get_mentions(); a failure
\* leaves the try of run_autonomous_cycle.
GetMentions ==
    /\ phase = "cycle"
    /\ \E got \in HttpOutcomes, list \in MentionLists :
        /\ failures + Fails(got) <= MaxFailures
        /\ failures' = failures + Fails(got)
        /\ IF got = "ok"
           THEN /\ mentions' = list
                /\ phase' = "mentions"
                /\ UNCHANGED last_error
           ELSE /\ phase' = OuterHandler(got)
                /\ last_error' = Caught(got)
                /\ UNCHANGED mentions
    /\ mention_i' = 1
    /\ slept' = 0
    /\ replied' = NotReplied
    /\ UNCHANGED <<keyword_i, posts, post_i, comments>>
    /\ UNCHANGED <<client, fixer>>

\* One turn of "for mention in mentions": skip when _has_replied, else
\* generate the response and reply_to_post; a failed reply leaves the try
\* of run_autonomous_cycle and the method's mentions are gone.
RespondToMention ==
    /\ phase = "mentions"
    /\ mention_i <= Len(mentions)
    /\ \E lookup \in HttpOutcomes, sent \in HttpOutcomes :
        LET mention == mentions[mention_i]
            invoked == /\ ~_has_replied(comments[mention.id], lookup)
                       /\ Truthy(_generate_response(mention))
            n == Fails(lookup) + (IF invoked THEN Fails(sent) ELSE 0)
        IN  /\ failures + n <= MaxFailures
            /\ failures' = failures + n
            /\ replied' = IF invoked THEN Invoked(mention.id) ELSE NotReplied
            /\ comments' = IF invoked /\ sent = "ok"
                           THEN [comments EXCEPT ![mention.id] = Append(@, agent_name)]
                           ELSE comments
            /\ IF invoked /\ sent # "ok"
               THEN /\ phase' = OuterHandler(sent)
                    /\ last_error' = Caught(sent)
                    /\ mentions' = <<>>
                    /\ mention_i' = 1
               ELSE /\ phase' = phase
                    /\ mention_i' = mention_i + 1
                    /\ UNCHANGED <<mentions, last_error>>
    /\ UNCHANGED <<keyword_i, posts, post_i, slept>>
    /\ UNCHANGED <<client, fixer>>

\* The mentions are done: engage_with_relevant_posts begins.
MentionsDone ==
    /\ phase = "mentions"
    /\ mention_i > Len(mentions)
    /\ phase' = "engage"
    /\ keyword_i' = 1
    /\ mentions' = <<>>
    /\ mention_i' = 1
    /\ replied' = NotReplied
    /\ UNCHANGED <<posts, post_i, comments, failures, last_error, slept>>
    /\ UNCHANGED <<client, fixer>>

\* posts = self.search_posts(keyword); a failure is caught inside the
\* loop over the keywords, which goes on with the next keyword.
SearchPosts ==
    /\ phase = "engage"
    /\ keyword_i <= Len(keywords)
    /\ \E got \in HttpOutcomes, list \in SearchResults :
        /\ failures + Fails(got) <= MaxFailures
        /\ failures' = failures + Fails(got)
        /\ IF got = "ok"
           THEN /\ posts' = FirstThree(list)
                /\ phase' = "posts"
                /\ UNCHANGED keyword_i
           ELSE /\ keyword_i' = keyword_i + 1
                /\ phase' = "engage"
                /\ UNCHANGED posts
    /\ post_i' = 1
    /\ replied' = NotReplied
    /\ UNCHANGED <<mentions, mention_i, comments, last_error, slept>>
    /\ UNCHANGED <<client, fixer>>

\* One turn of "for post in posts[:3]": when a comment is generated and
\* _has_commented_on is false, reply_to_post and sleep 2 seconds; a failed
\* reply is caught inside the loop over the keywords, which goes on with
\* the next keyword.
EngagePost ==
    /\ phase = "posts"
    /\ post_i <= Len(posts)
    /\ \E lookup \in HttpOutcomes, sent \in HttpOutcomes :
        LET post == posts[post_i]
            comment == _generate_helpful_comment(post, keywords[keyword_i])
            looked == Truthy(comment)
            invoked == looked /\ ~_has_commented_on(comments[post.id], lookup)
            n == (IF looked THEN Fails(lookup) ELSE 0)
                    + (IF invoked THEN Fails(sent) ELSE 0)
        IN  /\ failures + n <= MaxFailures
            /\ failures' = failures + n
            /\ replied' = IF invoked THEN Invoked(post.id) ELSE NotReplied
            /\ comments' = IF invoked /\ sent = "ok"
                           THEN [comments EXCEPT ![post.id] = Append(@, agent_name)]
                           ELSE comments
            /\ IF invoked /\ sent # "ok"
               THEN /\ keyword_i' = keyword_i + 1
                    /\ phase' = "engage"
                    /\ posts' = <<>>
                    /\ post_i' = 1
               ELSE /\ post_i' = post_i + 1
                    /\ phase' = phase
                    /\ UNCHANGED <<keyword_i, posts>>
    /\ UNCHANGED <<mentions, mention_i, last_error, slept>>
    /\ UNCHANGED <<client, fixer>>

\* The posts of this keyword are done: the next keyword.
PostsDone ==
    /\ phase = "posts"
    /\ post_i > Len(posts)
    /\ keyword_i' = keyword_i + 1
    /\ phase' = "engage"
    /\ posts' = <<>>
    /\ post_i' = 1
    /\ replied' = NotReplied
    /\ UNCHANGED <<mentions, mention_i, comments, failures, last_error, slept>>
    /\ UNCHANGED <<client, fixer>>

\* The keywords are done: log_transaction_summary (nothing is logged, no
\* checkpoint being called), then time.sleep(interval_minutes * 60).
CycleComplete ==
    /\ phase = "engage"
    /\ keyword_i > Len(keywords)
    /\ slept' = interval_minutes * 60
    /\ phase' = "cycle"
    /\ keyword_i' = 1
    /\ replied' = NotReplied
    /\ UNCHANGED <<mentions, mention_i, posts, post_i, comments, failures, last_error>>
    /\ UNCHANGED <<client, fixer>>

\* except Exception as e: print(...); time.sleep(60); e is unbound when
\* the handler ends.
Recover ==
    /\ phase = "failed"
    /\ slept' = 60
    /\ phase' = "cycle"
    /\ last_error' = NoException
    /\ replied' = NotReplied
    /\ UNCHANGED <<mentions, mention_i, keyword_i, posts, post_i, comments, failures>>
    /\ UNCHANGED <<client, fixer>>

\* MoltbookAgent(...) about to run run_autonomous_cycle; neither the SDK
\* client nor the auto-fix script is used.
InitMoltbook ==
    /\ ClientInit(CHOOSE c \in ConstructorArgs : c.base_url = DEFAULT_URL)
    /\ FixerInit([f \in Paths |-> Absent])
    /\ \E server \in InitialComments : AgentInit(server)

NextMoltbook ==
    \/ GetMentions
    \/ RespondToMention
    \/ MentionsDone
    \/ SearchPosts
    \/ EngagePost
    \/ PostsDone
    \/ CycleComplete
    \/ Recover

\* The agent is one sequential process that keeps running.
SpecMoltbook == InitMoltbook /\ [][NextMoltbook]_vars /\ WF_vars(NextMoltbook)


(***************************************************************************)
(* Properties of the client.                                               *)
(***************************************************************************)
Called == last.op # "none"
Asked == Called /\ last.requests # <<>>
Answered == Asked /\ last.reply.ok
Raised(exc) == Called /\ last.outcome.t = "raise" /\ last.outcome.exc = exc
Returned == Called /\ last.outcome.t = "return"

\* C1: every public call either raises ValidationError having handed no
\* request to the session, or hands it exactly one request; no call makes
\* two, and nothing but ValidationError is raised without a request.
C1_OneRequestPerCall ==
    Called =>
        \/ Len(last.requests) = 0 /\ Raised("ValidationError")
        \/ Len(last.requests) = 1 /\ ~Raised("ValidationError")

\* A transport failure, after an earlier call, on the second call.
C1_Witness ==
    /\ ncalls = 2
    /\ Asked /\ ~last.reply.ok
    /\ Raised("HandshakeError")
    /\ Len(last.requests) = 1

\* C2: create_escrow with amount <= 0 raises ValidationError and hands no
\* request to the session, whatever the other arguments.
C2_NonPositiveAmountRejected ==
    (last.op = "create_escrow" /\ last.args.amount.n <= 0) =>
        Raised("ValidationError") /\ last.requests = <<>>

\* amount = 0 with every other argument acceptable
C2_Witness ==
    /\ last.op = "create_escrow"
    /\ last.args.amount.n = 0
    /\ Truthy(last.args.buyer_agent_id) /\ Truthy(last.args.job_description)
    /\ last.args.currency = PyStr("USDC")
    /\ Raised("ValidationError") /\ last.requests = <<>>

\* C3: create_escrow with a currency outside {ETH, USDC}, an empty
\* buyer_agent_id or an empty job_description raises ValidationError before
\* any request.
C3_BadArgumentsRejected ==
    (/\ last.op = "create_escrow"
     /\ \/ last.args.currency \notin {PyStr("ETH"), PyStr("USDC")}
        \/ last.args.buyer_agent_id = PyStr("")
        \/ last.args.job_description = PyStr("")) =>
        Raised("ValidationError") /\ last.requests = <<>>

\* currency BTC with every other argument acceptable
C3_Witness ==
    /\ last.op = "create_escrow"
    /\ last.args.currency = PyStr("BTC")
    /\ last.args.amount.n > 0
    /\ Truthy(last.args.buyer_agent_id) /\ Truthy(last.args.job_description)
    /\ Raised("ValidationError") /\ last.requests = <<>>

\* C4: whatever the operation and the body, a 401 response ends the call
\* with AuthenticationError.
C4_Status401IsAuthenticationError ==
    (Answered /\ last.reply.status_code = 401) => Raised("AuthenticationError")

\* a 401 whose body is a well-formed escrow payload
C4_Witness ==
    /\ Answered /\ last.reply.status_code = 401 /\ last.reply.text = TxtEscrow
    /\ last.op = "get_escrow"
    /\ Raised("AuthenticationError")

\* C5: whatever the operation (health and list_escrows too) and the body, a
\* 404 response ends the call with NotFoundError.
C5_Status404IsNotFoundError ==
    (Answered /\ last.reply.status_code = 404) => Raised("NotFoundError")

\* health answered 404 with an HTML page
C5_Witness ==
    /\ Answered /\ last.reply.status_code = 404 /\ last.reply.text = TxtHtml
    /\ last.op = "health"
    /\ Raised("NotFoundError")

\* The operations that hand back what _request returns, untouched.
PassThrough == {"health", "submit_work", "refund"}

\* The parsed body of the last reply.
Parsed == ResponseJson(last.reply.text)

\* success is the JSON value false, and an error key is present.
ExplicitFailure(data) ==
    /\ data.t = "dict"
    /\ HasKey(data, "success") /\ data.d["success"] = PyBool(FALSE)
    /\ HasKey(data, "error")

\* C6: the outcome of the core request operation is the ordered table:
\* transport failure -> HandshakeError; 401 -> AuthenticationError("Invalid
\* API key"); 403 -> AuthenticationError("Access forbidden"); 404 ->
\* NotFoundError("Escrow not found"); unparseable body -> HandshakeError;
\* success false with an error -> HandshakeError(error); otherwise the
\* parsed body is returned.
C6_RequestFollowsTable ==
    (Asked /\ last.op \in PassThrough) =>
        IF ~last.reply.ok THEN Raised("HandshakeError")
        ELSE IF last.reply.status_code = 401
        THEN last.outcome = Raise("AuthenticationError", PyStr("Invalid API key"))
        ELSE IF last.reply.status_code = 403
        THEN last.outcome = Raise("AuthenticationError", PyStr("Access forbidden"))
        ELSE IF last.reply.status_code = 404
        THEN last.outcome = Raise("NotFoundError", PyStr("Escrow not found"))
        ELSE IF Parsed.t = "raise" THEN Raised("HandshakeError")
        ELSE IF ExplicitFailure(Parsed.val)
        THEN last.outcome = Raise("HandshakeError", Parsed.val.d["error"])
        ELSE last.outcome = Return(Parsed.val)

\* C7: a 200 response whose JSON body carries success false and an error E
\* ends the call with HandshakeError carrying exactly E; nothing is returned.
C7_ServerFailureRaisesItsError ==
    (/\ Answered /\ last.reply.status_code = 200
     /\ Parsed.t = "return" /\ ExplicitFailure(Parsed.val)) =>
        last.outcome = Raise("HandshakeError", Parsed.val.d["error"])

\* payout answered 200 {"success": false, "error": "insufficient funds"}
C7_Witness ==
    /\ last.op = "payout"
    /\ Answered /\ last.reply = Response(200, TxtFailed)
    /\ last.outcome = Raise("HandshakeError", PyStr("insufficient funds"))

\* C8: for a status outside {401, 403, 404} and a body that parses, the
\* core request operation raises the server's error exactly when success is
\* false itself and an error key is present, and returns the parsed body
\* unchanged in every other case.
C8_RaisesIffExplicitlyFalse ==
    (/\ Answered /\ last.op \in PassThrough
     /\ last.reply.status_code \notin {401, 403, 404}
     /\ Parsed.t = "return") =>
        IF ExplicitFailure(Parsed.val)
        THEN last.outcome = Raise("HandshakeError", Parsed.val.d["error"])
        ELSE last.outcome = Return(Parsed.val)

\* C9: whatever the server answers and the caller passes, a call that fails
\* raises HandshakeError or one of its three subclasses.
C9_OnlyHandshakeErrorsEscape ==
    (Called /\ last.outcome.t = "raise") => last.outcome.exc \in HandshakeErrors

\* The last piece of the path of the operations on one escrow.
PathEnd(op) ==
    CASE op = "payout" -> "/payout"
      [] op = "refund" -> "/refund"
      [] op = "submit_work" -> "/submit"

\* What the reply alone makes of a payout, a refund or a submit_work.
Surfaced(op, id, reply) ==
    CASE op = "payout" -> payout(self, id, reply).outcome
      [] op = "refund" -> RequestOutcome(reply)
      [] op = "submit_work" -> RequestOutcome(reply)

\* C10: whatever the caller saw earlier for the escrow, payout, refund and
\* submit_work hand exactly one POST for the caller's id to the session and
\* end with what the reply alone maps to; nothing is decided locally.
C10_NeverBlockedLocally ==
    (Called /\ last.op \in {"payout", "refund", "submit_work"}) =>
        /\ Len(last.requests) = 1
        /\ last.requests[1].method = "POST"
        /\ last.requests[1].url =
               base_url \o <<"/api", "/escrows/", last.args.escrow_id, PathEnd(last.op)>>
        /\ last.outcome = Surfaced(last.op, last.args.escrow_id, last.reply)
        /\ last.reply = Response(200, TxtPaid) /\ last.op = "payout" =>
               /\ Returned
               /\ last.outcome.val.success = PyBool(TRUE)
               /\ last.outcome.val.payout_tx = PyStr("0xaa")

\* payout after the caller saw the escrow REJECTED: forwarded, and paid
C10_Witness ==
    /\ last.op = "payout"
    /\ known[last.args.escrow_id] = "REJECTED"
    /\ Len(last.requests) = 1
    /\ last.reply = Response(200, TxtPaid)
    /\ Returned /\ last.outcome.val.t = "PayoutResult"
    /\ last.outcome.val.worker_paid = PyInt(4)

\* The escrow payload of the last reply, as get_escrow and create_escrow
\* look it up; NoPayload when the body carries none.
NoPayload == [t |-> "absent"]
EscrowPayload ==
    IF Parsed.t = "return" /\ Parsed.val.t = "dict" /\ HasKey(Parsed.val, "escrow")
    THEN Parsed.val.d["escrow"]
    ELSE NoPayload

\* The status a payload carries is the one the Escrow built from it shows.
CarriesStatus(payload, escrow) ==
    /\ payload.t = "dict"
    /\ HasKey(payload, "status")
    /\ payload.d["status"] = PyStr(escrow.status.name)

\* C11: the status of every Escrow that get_escrow, create_escrow or
\* list_escrows returns is the status the server's response carries for it;
\* a response without an escrow object or without a status key yields no
\* Escrow with a status of the client's choosing.
C11_StatusComesFromServer ==
    /\ (Returned /\ last.op \in {"get_escrow", "create_escrow"}) =>
           CarriesStatus(EscrowPayload, last.outcome.val)
    /\ (Returned /\ last.op = "list_escrows") =>
           \A i \in 1..Len(last.outcome.val.l) :
               CarriesStatus(Parsed.val.d["escrows"].l[i], last.outcome.val.l[i])

\* The fields of Escrow that are read back as the payload gave them.
PlainFields ==
    {"id", "buyer_agent_id", "worker_agent_id", "job_description", "amount_locked",
     "toll_fee", "worker_payout", "worker_wallet", "buyer_wallet", "work_submitted",
     "judge_verdict", "payout_tx_hash", "toll_tx_hash", "created_at"}

\* Reading every field of `escrow` gives back the keys of `payload`, currency
\* and status as the enumeration member of that name.
ReadsBack(payload, escrow) ==
    /\ \A k \in PlainFields \cap DOMAIN payload.d : escrow[k] = payload.d[k]
    /\ HasKey(payload, "currency") =>
           /\ escrow.currency = payload.d["currency"]
           /\ escrow.currency \in {PyStr("ETH"), PyStr("USDC")}
    /\ HasKey(payload, "status") =>
           /\ escrow.status.t = "EscrowStatus"
           /\ PyStr(escrow.status.name) = payload.d["status"]

\* C12: for every escrow payload of the server, Escrow.from_dict followed by
\* reading each field gives the payload's value for that key, currency and
\* status mapped to the enumeration member of exactly that name; verify maps
\* the verdict it is given to the Verdict member of that name.
C12_FromDictRoundTrip ==
    /\ (/\ Asked /\ last.op \in {"get_escrow", "create_escrow"}
        /\ RequestOutcome(last.reply).t = "return"
        /\ EscrowPayload.t = "dict") =>
           Returned /\ ReadsBack(EscrowPayload, last.outcome.val)
    /\ (/\ Asked /\ last.op = "verify"
        /\ RequestOutcome(last.reply).t = "return"
        /\ HasKey(Parsed.val, "verdict")) =>
           /\ Returned
           /\ PyStr(last.outcome.val.verdict.name) = Parsed.val.d["verdict"]

OptionalKeys == {"worker_agent_id", "worker_wallet", "buyer_wallet"}

\* The JSON body of the request create_escrow sent.
SentBody == last.requests[1].kwargs["json"]

\* The four required keys carry the caller's values.
RequiredKeysSent ==
    /\ {"buyer_agent_id", "job_description", "amount_locked", "currency"}
           \subseteq DOMAIN SentBody.d
    /\ SentBody.d["buyer_agent_id"] = last.args.buyer_agent_id
    /\ SentBody.d["job_description"] = last.args.job_description
    /\ SentBody.d["amount_locked"] = last.args.amount
    /\ SentBody.d["currency"] = last.args.currency

\* C13 as stated: each optional key is in the body create_escrow sends if
\* and only if the caller passed that argument, and the four required keys
\* are there with the caller's values.
C13_OptionalSentIffPassed ==
    (last.op = "create_escrow" /\ Asked) =>
        /\ RequiredKeysSent
        /\ \A k \in OptionalKeys : HasKey(SentBody, k) <=> last.args[k] # PyNone

\* C13, amended: each optional key is in the body if and only if the caller
\* passed a value that is neither None nor empty, and then with that value;
\* no key is sent as null or empty, and the four required keys are there
\* with the caller's values.
C13_OptionalSentIffTruthy ==
    (last.op = "create_escrow" /\ Asked) =>
        /\ RequiredKeysSent
        /\ DOMAIN SentBody.d \subseteq
               {"buyer_agent_id", "job_description", "amount_locked", "currency"}
                   \cup OptionalKeys
        /\ \A k \in OptionalKeys :
               /\ HasKey(SentBody, k) <=> Truthy(last.args[k])
               /\ HasKey(SentBody, k) => SentBody.d[k] = last.args[k]

\* worker_agent_id omitted, worker_wallet passed empty, buyer_wallet passed
C13_Witness ==
    /\ last.op = "create_escrow" /\ Asked
    /\ last.args.worker_agent_id = PyNone
    /\ last.args.worker_wallet = PyStr("")
    /\ last.args.buyer_wallet = PyStr("0xB")
    /\ DOMAIN SentBody.d =
           {"buyer_agent_id", "job_description", "amount_locked", "currency",
            "buyer_wallet"}

\* C14: for a status outside {401, 403, 404} and a body that is no JSON, the
\* call ends with HandshakeError whose message holds the raw body text;
\* nothing is returned.
C14_NonJsonBodyRaisesWithText ==
    (/\ Answered /\ last.reply.status_code \notin {401, 403, 404}
     /\ Parsed.t = "raise") =>
        /\ Raised("HandshakeError")
        /\ last.outcome.arg = PyStr("Invalid JSON response: " \o last.reply.text)

\* list_escrows answered 500 with an HTML page
C14_Witness ==
    /\ last.op = "list_escrows"
    /\ Answered /\ last.reply = Response(500, TxtHtml)
    /\ last.outcome =
           Raise("HandshakeError",
                 PyStr("Invalid JSON response: <html>502 Bad Gateway</html>"))

\* C15: when the transport fails, the call ends with HandshakeError wrapping
\* the cause after exactly one attempt; no second request, no result.
C15_TransportFailureRaisesOnce ==
    (Asked /\ ~last.reply.ok) =>
        /\ Len(last.requests) = 1
        /\ Raised("HandshakeError")
        /\ last.outcome.arg = PyStr("Request failed: " \o last.reply.cause)

\* create_escrow with good arguments, and the read times out
C15_Witness ==
    /\ last.op = "create_escrow"
    /\ Asked /\ last.reply = TransportError("read timed out")
    /\ Len(last.requests) = 1
    /\ last.outcome = Raise("HandshakeError", PyStr("Request failed: read timed out"))

\* Every request of the last call carries the configured credentials,
\* content type and timeout.
RequestsCarryConfiguration ==
    Called =>
        \A i \in 1..Len(last.requests) :
            /\ last.requests[i].headers["Authorization"] = "Bearer " \o api_key
            /\ last.requests[i].headers["Content-Type"] = "application/json"
            /\ last.requests[i].kwargs["timeout"] = PyInt(timeout)

\* C16: no public operation, failing or not, changes api_key, base_url or
\* timeout, and every request carries Authorization: Bearer <api_key>,
\* Content-Type: application/json and the configured timeout.
C16_ConfigurationIsFixed ==
    [][/\ api_key' = api_key
       /\ base_url' = base_url
       /\ timeout' = timeout
       /\ headers' = headers
       /\ RequestsCarryConfiguration']_vars

\* the second call of a client built with key-2 and a timeout of 5 fails
C16_Witness ==
    /\ ncalls = 2
    /\ api_key = "key-2" /\ timeout = 5 /\ base_url = <<"http://localhost:3000">>
    /\ Asked /\ Raised("NotFoundError")
    /\ last.requests[1].headers["Authorization"] = "Bearer key-2"
    /\ last.requests[1].kwargs["timeout"] = PyInt(5)

\* The wire protocol: method, path and JSON body (NoPayload when the
\* operation sends none) of each public operation.
WireMethod ==
    [health |-> "GET", list_escrows |-> "GET", get_escrow |-> "GET",
     create_escrow |-> "POST", submit_work |-> "POST", verify |-> "POST",
     payout |-> "POST", refund |-> "POST"]

WirePath ==
    CASE last.op = "health" -> <<"/health">>
      [] last.op = "list_escrows" -> <<"/escrows">>
      [] last.op = "get_escrow" -> <<"/escrows/", last.args.escrow_id>>
      [] last.op = "create_escrow" -> <<"/escrows">>
      [] last.op = "submit_work" -> <<"/escrows/", last.args.escrow_id, "/submit">>
      [] last.op = "verify" -> <<"/escrows/", last.args.escrow_id, "/verify">>
      [] last.op = "payout" -> <<"/escrows/", last.args.escrow_id, "/payout">>
      [] last.op = "refund" -> <<"/escrows/", last.args.escrow_id, "/refund">>

SentKwargs == last.requests[1].kwargs

WireBodyOk ==
    CASE last.op = "create_escrow" ->
            /\ "json" \in DOMAIN SentKwargs
            /\ SentKwargs["json"].t = "dict"
            /\ HasKey(SentKwargs["json"], "amount_locked")
            /\ SentKwargs["json"].d["amount_locked"] = last.args.amount
            /\ ~HasKey(SentKwargs["json"], "amount")
      [] last.op = "submit_work" ->
            /\ "json" \in DOMAIN SentKwargs
            /\ SentKwargs["json"] = PyDict(Kv("work_description", last.args.work))
      [] OTHER -> DOMAIN SentKwargs = {"timeout"}

\* C17: the one request of every public operation has the method, path
\* and body of the wire protocol, the path appended to <base_url>/api and
\* built from the caller's escrow_id.
C17_WireProtocol ==
    Asked =>
        /\ Len(last.requests) = 1
        /\ last.requests[1].method = WireMethod[last.op]
        /\ last.requests[1].url = base_url \o <<"/api">> \o WirePath
        /\ WireBodyOk

\* submit_work for escrow e2 sent by the client whose base URL had a
\* trailing slash stripped
C17_Witness ==
    /\ Asked /\ last.op = "submit_work" /\ last.args.escrow_id = "e2"
    /\ api_key = "key-2"
    /\ last.requests[1].url =
           <<"http://localhost:3000", "/api", "/escrows/", "e2", "/submit">>
    /\ last.requests[1].method = "POST"

\* verify returned a VerificationResult.
Verified == last.op = "verify" /\ Returned

\* The server's response carried this key with this text.
Carried(key, value) ==
    HasKey(Parsed.val, key) /\ Parsed.val.d[key] = PyStr(value)

\* C18: a VerificationResult returned by verify is valid exactly when the
\* server's response carried verdict VALID; a verdict the response omits
\* reads INVALID and a status it omits reads REJECTED.
C18_VerdictComesFromServer ==
    Verified =>
        /\ is_valid(last.outcome.val) <=> Carried("verdict", "VALID")
        /\ ~HasKey(Parsed.val, "verdict") => last.outcome.val.verdict.name = "INVALID"
        /\ ~HasKey(Parsed.val, "status") => last.outcome.val.status.name = "REJECTED"

\* a response carrying a status and no verdict was read as INVALID
C18_Witness ==
    /\ Verified
    /\ last.reply.text = TxtVerifiedOnly
    /\ ~is_valid(last.outcome.val)
    /\ last.outcome.val.status.name = "VERIFIED"

\* auto_fix_loop has returned.
LoopReturned == pc = "done"

\* The last step taken before the loop returned, none when no step was.
LastStep == IF steps = <<>> THEN Step("none", TRUE) ELSE steps[Len(steps)]

\* The analysis of the current iteration reports no errors.
ReportsNoErrors == ~Truthy(Get(analysis, "has_errors", PyBool(FALSE)))

\* A fix was applied in the current iteration.
FixApplied == \E i \in 1..Len(steps) : steps[i] = Step("apply", TRUE)

\* The exits that are not the clean one: no logs, the user declines, no
\* fix applied, commit or push failure, iterations exhausted.
OtherExit ==
    \/ LastStep = Step("fetch", FALSE)
    \/ LastStep = Step("confirm", FALSE)
    \/ LastStep.name \in {"confirm", "apply"} /\ response = "y" /\ ~FixApplied
    \/ LastStep = Step("commit", FALSE)
    \/ LastStep = Step("wait", TRUE) /\ iteration = max_iterations

\* C19: auto_fix_loop returns, after at most max_iterations iterations; it
\* returns True only from an iteration whose analysis reports no errors,
\* and False from every other exit.
C19_TerminatesAndReturnsTrueOnlyWhenClean ==
    /\ <>LoopReturned
    /\ [](iteration <= max_iterations)
    /\ [](LoopReturned =>
            \/ /\ returned = PyBool(TRUE)
               /\ LastStep = Step("analyze", FALSE)
               /\ ReportsNoErrors
            \/ /\ returned = PyBool(FALSE)
               /\ OtherExit)

\* the third iteration applied a fix and pushed it, and the loop returned False
C19_Witness ==
    /\ LoopReturned
    /\ iteration = max_iterations
    /\ FixApplied
    /\ LastStep = Step("wait", TRUE)
    /\ steps[Len(steps) - 1] = Step("commit", TRUE)
    /\ returned = PyBool(FALSE)

\* The step that may come right before each step of an iteration.
StepBefore ==
    [fetch |-> {}, analyze |-> {"fetch"}, confirm |-> {"analyze"},
     apply |-> {"confirm", "apply"}, commit |-> {"apply"}, wait |-> {"commit"}]

\* fetch logs, analyze, user confirmation, apply fixes, commit and push,
\* wait: each step follows the one before it in this order, which (but
\* for a fix that could not be applied) let the loop go on.
StepsInOrder ==
    \A i \in 1..Len(steps) :
        IF i = 1
        THEN steps[i].name = "fetch"
        ELSE /\ steps[i - 1].name \in StepBefore[steps[i].name]
             /\ steps[i - 1].name # "apply" => steps[i - 1].ok

CommitOnlyAfterFix ==
    \A i \in 1..Len(steps) :
        steps[i].name = "commit" =>
            /\ fixed_files # <<>>
            /\ \E j \in 1..(i - 1) : steps[j] = Step("apply", TRUE)

\* C20: in every iteration the steps come in the order fetch, analyze,
\* confirm, apply, commit and push, wait; a file changes only after the
\* user answered 'y' in that iteration; commit_and_push runs only after a
\* fix was applied in that iteration; a further iteration starts only
\* after a successful push.
C20_StepsInOrder ==
    /\ [](StepsInOrder /\ CommitOnlyAfterFix)
    /\ [][files' # files =>
            /\ response = "y"
            /\ \E i \in 1..Len(steps) : steps[i] = Step("confirm", TRUE)]_vars
    /\ [][iteration' # iteration /\ iteration # 0 =>
            /\ Len(steps) >= 2
            /\ steps[Len(steps) - 1] = Step("commit", TRUE)
            /\ steps[Len(steps)] = Step("wait", TRUE)]_vars

\* the second iteration has begun, after a.py was rewritten and pushed in
\* the first
C20_Witness ==
    /\ iteration = 2
    /\ pc = "analyze"
    /\ steps = <<Step("fetch", TRUE)>>
    /\ response = "y"
    /\ fixed_files = <<"a.py">>
    /\ files["a.py"] = File("fixed")
    /\ files[BackupPath("a.py")] = File("original")

\* The loop is about to treat an error that names an existing file, so
\* that its next step calls apply_fix on that file.
CallsApplyFix ==
    /\ pc = "apply"
    /\ next_error <= Len(analysis.d["errors"].l)
    /\ Truthy(Get(analysis.d["errors"].l[next_error], "file", PyNone))
    /\ files[Get(analysis.d["errors"].l[next_error], "file", PyNone).s] # Absent

\* The file that call is about.
Target == Get(analysis.d["errors"].l[next_error], "file", PyNone).s

\* C21: apply_fix is all-or-nothing for the target file: when it returns
\* False the file holds the content it had before the call; when it
\* returns True the file holds the new content and its backup the
\* previous content.
C21_ApplyFixAllOrNothing ==
    [][CallsApplyFix =>
          IF steps'[Len(steps')] = Step("apply", TRUE)
          THEN /\ files'[Target] \in {File(text) : text \in FixTexts}
               /\ files'[BackupPath(Target)] = files[Target]
          ELSE files'[Target] = files[Target]]_vars

\* The number of comments by agent_name among the comments of a post.
OwnComments(post_id) ==
    Cardinality({i \in 1..Len(comments[post_id]) : comments[post_id][i] = agent_name})

\* C22: over any number of cycles the agent posts at most one comment per
\* mention or post: reply_to_post(p) is invoked only when the comments of p
\* hold none by agent_name, also when the comment lookup fails and when
\* several keywords return the same post.
C22_AtMostOneCommentPerPost ==
    /\ replied # NotReplied => ~replied.already
    /\ \A p \in PostIds : OwnComments(p) <= 1

\* The step invoked reply_to_post and the call failed: no comment was added.
ReplyFailed == replied' # NotReplied /\ comments' = comments

\* The step made an HTTP call that failed.
CallFailed == failures' > failures

\* A new full cycle is about to start after the handler's 60-second wait.
Restarted == phase = "cycle" /\ slept = 60

\* C23: run_autonomous_cycle never exits because of a failed HTTP call.  A
\* failure of get_mentions or of a reply to a mention is caught by the
\* loop's handler, which skips the rest of the cycle, waits 60 seconds and
\* starts a new cycle; a failed search or reply in
\* engage_with_relevant_posts moves on to the next keyword, and the
\* engagement runs through all keywords to the end of the cycle.
C23_CycleSurvivesFailures ==
    /\ [](phase # "exited")
    /\ [][/\ phase = "cycle" /\ CallFailed => phase' = "failed"
          /\ phase = "mentions" /\ ReplyFailed => phase' = "failed"
          /\ phase' = "failed" => /\ phase \in {"cycle", "mentions"}
                                  /\ last_error'.exc \in HttpFailures
          /\ phase = "failed" => Restarted'
          /\ phase = "engage" /\ CallFailed =>
                phase' = "engage" /\ keyword_i' = keyword_i + 1
          /\ phase = "posts" /\ ReplyFailed =>
                phase' = "engage" /\ keyword_i' = keyword_i + 1
          /\ phase \in {"engage", "posts"} /\ keyword_i' # keyword_i =>
                \/ keyword_i' = keyword_i + 1
                \/ keyword_i > Len(keywords) /\ phase' = "cycle"]_vars
    /\ (phase = "failed") ~> Restarted
    /\ (phase = "engage") ~> (phase = "cycle" /\ slept = interval_minutes * 60)

\* the handler has caught a failure and waited, a new cycle is about to
\* start; two HTTP calls have failed so far and a comment has been posted
C23_Witness ==
    /\ Restarted
    /\ failures = 2
    /\ \E p \in PostIds : HasOwnComment(p)

====
